---- MODULE Spec2Model ----
(***************************************************************************)
(* check_ranger_policy.py: the Nagios plugin that resolves one Apache      *)
(* Ranger policy out of Ranger Admin's REST answer (by id or by name),     *)
(* validates it (enabled, audited, recursive, expected name) and builds    *)
(* the status line; or lists every policy and exits UNKNOWN.               *)
(*                                                                         *)
(* One run of the plugin is modelled: process_options, then parse_json on  *)
(* the decoded answer, then check_policy statement by statement (its       *)
(* position is pc), so that the running severity is visible between the    *)
(* checks.  Python values are tagged records [t, v]; a message is the      *)
(* sequence of the string pieces the code concatenates.                    *)
(***************************************************************************)
EXTENDS Integers, Sequences, FiniteSets, TLC

\* Bounds of the inputs.
MaxLen == 2     \* longest vXPolicies list
MaxId == 2      \* largest policy id

-----------------------------------------------------------------------------
\* Python values

None == [t |-> "none", v |-> 0]
PyBool(b) == [t |-> "bool", v |-> b]
PyInt(n) == [t |-> "int", v |-> n]
PyStr(s) == [t |-> "str", v |-> s]
PyList(s) == [t |-> "list", v |-> s]
PyDict(f) == [t |-> "dict", v |-> f]

\* bool(x): Python's truth value, as `if x` / `not x` read it.
truth(x) ==
    CASE x.t = "none" -> FALSE
      [] x.t = "bool" -> x.v
      [] x.t = "int" -> x.v # 0
      [] x.t = "str" -> x.v # ""
      [] x.t = "list" -> Len(x.v) > 0
      [] x.t = "dict" -> DOMAIN x.v # {}

\* str(x) and '{0}'.format(x) of the scalars the plugin formats.
str(x) ==
    CASE x.t = "none" -> "None"
      [] x.t = "bool" -> IF x.v THEN "True" ELSE "False"
      [] x.t = "int" -> ToString(x.v)
      [] x.t = "str" -> x.v
      [] OTHER -> "<repr>"

\* harisekhon.utils.isList
isList(x) == x.t = "list"

\* d[k] is defined: d is a dict holding k (else KeyError / TypeError).
has_key(d, k) == d.t = "dict" /\ k \in DOMAIN d.v

\* The exception d[k] raises when it is not defined.
subscript_error(d) == IF d.t = "dict" THEN "KeyError" ELSE "TypeError"

-----------------------------------------------------------------------------
\* Inputs: command lines and decoded REST answers

Names == {"p1", "P1"}
Ids == 1..MaxId

\* A Ranger policy as the REST API returns it.
PolicyRecord(id, name, enabled, auditing, rec) ==
    PyDict([id |-> id, policyName |-> PyStr(name),
            isEnabled |-> PyBool(enabled), isAuditEnabled |-> PyBool(auditing),
            isRecursive |-> PyBool(rec),
            repositoryName |-> PyStr("repo"), repositoryType |-> PyStr("hdfs"),
            description |-> PyStr("")])

\* A policy without the display-only fields (the listing needs them).
BarePolicy(id, name) ==
    PyDict([id |-> id, policyName |-> PyStr(name),
            isEnabled |-> PyBool(TRUE), isAuditEnabled |-> PyBool(TRUE),
            isRecursive |-> PyBool(TRUE)])

\* A policy without its flags.
FlaglessPolicy(id, name) == PyDict([id |-> id, policyName |-> PyStr(name)])

\* Answers to the targeted query /policy/<id>: one policy, id a number or a string.
DirectRecords ==
    { PolicyRecord(id, n, e, a, r) :
        id \in {PyInt(i) : i \in Ids} \cup {PyStr(ToString(i)) : i \in Ids},
        n \in Names, e \in BOOLEAN, a \in BOOLEAN, r \in BOOLEAN }

\* What one element of a listed collection may be: a name and flags (the
\* auditing and recursive flags vary together), or a bare policy.
ListShapes ==
    { <<n, e, a>> : n \in Names, e \in BOOLEAN, a \in BOOLEAN } \cup {<<"bare">>}

ListElement(i, s) ==
    IF s = <<"bare">> THEN BarePolicy(PyInt(i), "p1")
    ELSE PolicyRecord(PyInt(i), s[1], s[2], s[3], s[3])

\* Collections of 0..MaxLen policies; the i-th policy has id i.
PolicyLists ==
    UNION { { [i \in 1..n |-> ListElement(i, f[i])] : f \in [1..n -> ListShapes] } :
            n \in 0..MaxLen }

\* Values of vXPolicies that are no list.
NonLists ==
    {None, PyDict(<<>>), PyStr(""), PyInt(0), PyBool(FALSE),
     PyStr("x"), PyInt(1), PyDict([a |-> PyInt(1)])}

Containers ==
    { PyDict([vXPolicies |-> PyList(l)]) : l \in PolicyLists }
    \cup { PyDict([vXPolicies |-> x]) : x \in NonLists }

Payloads ==
    DirectRecords \cup Containers
    \cup {PyDict(<<>>), PyList(<<>>), FlaglessPolicy(PyInt(1), "p1"),
          PyDict([startIndex |-> PyInt(0)])}

IdOptions == {None, PyStr("")} \cup {PyStr(ToString(i)) : i \in Ids}
NameOptions == {None, PyStr("")} \cup {PyStr(n) : n \in Names}

-----------------------------------------------------------------------------
VARIABLES
    policy_name, policy_id, no_audit, recursive, list_policies,  \* self.*
    path,        \* self.path, as pieces
    json_data,   \* the decoded answer handed to parse_json
    policy,      \* the resolved policy
    status,      \* the plugin's running severity
    msg,         \* self.msg, as pieces
    exc,         \* how the run ended: "" while running or returned, else what was raised
    exc_msg,     \* the raised error's message, as pieces
    stdout,      \* the lines print_policies wrote
    pc           \* the run's position

vars == <<policy_name, policy_id, no_audit, recursive, list_policies, path,
          json_data, policy, status, msg, exc, exc_msg, stdout, pc>>

options == <<policy_name, policy_id, no_audit, recursive, list_policies>>

-----------------------------------------------------------------------------
\* The framework (harisekhon pylib), at its interface

\* NagiosPlugin.ok() / NagiosPlugin.critical(): the status they set.
ok == "OK"
critical == "CRITICAL"

\* NagiosPlugin.main(): the Nagios status a finished run is reported with.
\* CriticalError quits CRITICAL; UnknownError, usage(), sys.exit(UNKNOWN) and any
\* other exception quit UNKNOWN; a run that returns quits with self.status.
surfaced(e, s) ==
    CASE e = "" -> s
      [] e = "CriticalError" -> "CRITICAL"
      [] OTHER -> "UNKNOWN"

\* self.verbose is off unless -v is given; host_info is then empty.
verbose == FALSE
host_info == IF verbose THEN " at 'host:port'" ELSE ""

-----------------------------------------------------------------------------
\* parse_json

\* Lines 118-123: the resolved policy (direct lookup) and the policy list.
extract(data, id, listing) ==
    LET direct == truth(id)
        policy0 == IF direct THEN data ELSE None
    IN  IF ~direct \/ listing
        THEN IF has_key(data, "vXPolicies")
             THEN [exc |-> "", policy |-> policy0, policy_list |-> data.v["vXPolicies"]]
             ELSE [exc |-> subscript_error(data), policy |-> policy0, policy_list |-> None]
        ELSE [exc |-> "", policy |-> policy0, policy_list |-> PyList(<<data>>)]

\* An emptiness test that only catches a missing list.
no_policies_none(policy_list) == policy_list = None

\* Line 124: `not policy_list`.
no_policies(policy_list) == ~truth(policy_list)

\* A search that keeps the loop variable when nothing matched.
RECURSIVE search_leaky(_, _, _)
search_leaky(l, name, i) ==
    IF i > Len(l) THEN [exc |-> "", policy |-> IF Len(l) > 0 THEN l[Len(l)] ELSE None]
    ELSE IF ~has_key(l[i], "policyName")
         THEN [exc |-> subscript_error(l[i]), policy |-> None]
    ELSE IF l[i].v["policyName"] = name THEN [exc |-> "", policy |-> l[i]]
    ELSE search_leaky(l, name, i + 1)

\* A search without its break: the last match wins.
search_nobreak(l, name, i) ==
    LET M == {j \in i..Len(l) : has_key(l[j], "policyName") /\ l[j].v["policyName"] = name}
    IN  IF M = {} THEN [exc |-> "", policy |-> None]
        ELSE [exc |-> "", policy |-> l[CHOOSE j \in M : \A k \in M : k <= j]]

\* Lines 141-144: the first element, in list order, whose policyName == name.
RECURSIVE search(_, _, _)
search(l, name, i) ==
    IF i > Len(l) THEN [exc |-> "", policy |-> None]
    ELSE IF ~has_key(l[i], "policyName")
         THEN [exc |-> subscript_error(l[i]), policy |-> None]
    ELSE IF l[i].v["policyName"] = name THEN [exc |-> "", policy |-> l[i]]
    ELSE search(l, name, i + 1)

\* Lines 140-144.
resolve(policy0, policy_list, name) ==
    IF policy0 = None /\ truth(name)
    THEN search(policy_list.v, name, 1)
    ELSE [exc |-> "", policy |-> policy0]

\* Lines 147-149: the CriticalError's message.
not_found_msg(name) ==
    <<"no matching policy found with name '", str(name), "' in policy list ",
      "returned by Ranger", host_info>>

-----------------------------------------------------------------------------
\* print_policies

cols ==
    [Name |-> "policyName", RepoName |-> "repositoryName",
     RepoType |-> "repositoryType", Description |-> "description",
     Enabled |-> "isEnabled", Audit |-> "isAuditEnabled",
     Recursive |-> "isRecursive", Id |-> "id"]

columns ==
    <<"Id", "Name", "RepoName", "RepoType", "Enabled", "Audit", "Recursive",
      "Description">>

Max(S) == CHOOSE x \in S : \A y \in S : y <= x

RECURSIVE Sum(_, _)
Sum(f, S) ==
    IF S = {} THEN 0
    ELSE LET x == CHOOSE y \in S : TRUE IN f[x] + Sum(f, S \ {x})

\* Lines 193-202: a record the width loop cannot read (a column other than
\* Description is missing).
unmeasurable(r) ==
    \E col \in DOMAIN cols : col # "Description" /\ ~has_key(r, cols[col])

\* Lines 190-202: the column widths.
column_widths(l) ==
    [col \in DOMAIN cols |->
        IF col = "Description" THEN Len(col)
        ELSE Max({Len(col)} \cup {Len(str(l[i].v[cols[col]])) : i \in 1..Len(l)})]

\* Lines 213-214: the cells of one row, '{0:{1}}  '.format(value, width), up to
\* the first column the record lacks.
row_cells(r, widths) ==
    LET missing == {c \in 1..Len(columns) : ~has_key(r, cols[columns[c]])}
        n == IF missing = {} THEN Len(columns)
             ELSE (CHOOSE c \in missing : \A d \in missing : c <= d) - 1
    IN  [c \in 1..n |-> [val |-> r.v[cols[columns[c]]], width |-> widths[columns[c]]]]

\* The rows of a listing that forgets the last policy.
table_rows_short(l, widths) ==
    [exc |-> "",
     lines |-> [i \in 1..(Len(l) - 1) |->
                  [kind |-> "row", cells |-> row_cells(l[i], widths)]]]

\* Lines 212-215: one row per policy, until a policy lacks a column.
table_rows(l, widths) ==
    LET short == {i \in 1..Len(l) : Len(row_cells(l[i], widths)) < Len(columns)}
        n == IF short = {} THEN Len(l)
             ELSE (CHOOSE i \in short : \A j \in short : i <= j) - 1
        rows == [i \in 1..n |-> [kind |-> "row", cells |-> row_cells(l[i], widths)]]
        cut == IF short = {} THEN <<>>
               ELSE <<[kind |-> "partial", cells |-> row_cells(l[n + 1], widths)]>>
    IN  [exc |-> IF short = {} THEN "" ELSE subscript_error(l[n + 1]),
         lines |-> rows \o cut]

\* Lines 179-215: the lines written, and the exception that ended the writing.
print_policies(policy_list) ==
    LET l == policy_list.v
        bad == {i \in 1..Len(l) : unmeasurable(l[i])}
    IN  IF bad # {}
        THEN LET k == CHOOSE i \in bad : \A j \in bad : i <= j
             IN  [exc |-> subscript_error(l[k]),
                  lines |-> [i \in 1..k |-> [kind |-> "json", cells |-> <<l[i]>>]]]
        ELSE
        LET widths == column_widths(l)
            total_width == Sum([c \in 1..Len(columns) |-> widths[columns[c]] + 2],
                               1..Len(columns))
            border == [kind |-> "border", cells |-> <<total_width>>]
            header == [kind |-> "header",
                       cells |-> [c \in 1..Len(columns) |->
                                    [val |-> PyStr(columns[c]), width |-> widths[columns[c]]]]]
            dumps == [i \in 1..Len(l) |-> [kind |-> "json", cells |-> <<l[i]>>]]
            table == table_rows(l, widths)
        IN  [exc |-> table.exc,
             lines |-> dumps \o <<border, header, border>> \o table.lines]

-----------------------------------------------------------------------------
\* check_policy, statement by statement.  Each step maps the running
\* [status, msg] to the next one, or raises.

\* A header step that compares the ids as they are, not as strings.
check_header_raw(p, id) ==
    IF ~has_key(p, "policyName") \/ ~has_key(p, "id")
    THEN [exc |-> subscript_error(p), msg |-> <<>>]
    ELSE IF truth(id) /\ p.v["id"] # id
    THEN [exc |-> "AssertionError", msg |-> <<>>]
    ELSE [exc |-> "",
          msg |-> <<"Ranger policy id '", str(p.v["id"]), "' name '",
                    str(p.v["policyName"]), "'">>]

\* Lines 154-158: read name and id, assert the id, start the message.
check_header(p, id) ==
    IF ~has_key(p, "policyName") \/ ~has_key(p, "id")
    THEN [exc |-> subscript_error(p), msg |-> <<>>]
    ELSE IF truth(id) /\ str(p.v["id"]) # str(id)
    THEN [exc |-> "AssertionError", msg |-> <<>>]
    ELSE [exc |-> "",
          msg |-> <<"Ranger policy id '", str(p.v["id"]), "' name '",
                    str(p.v["policyName"]), "'">>]

\* A name step that writes its clause and forgets self.critical().
check_name_quiet(s, m, p, name) ==
    IF name # None /\ name # p.v["policyName"]
    THEN [status |-> s, msg |-> m \o <<" (expected '", str(name), "')">>]
    ELSE [status |-> s, msg |-> m]

\* Lines 159-161: the expected name against the policy's name.
check_name(s, m, p, name) ==
    IF name # None /\ name # p.v["policyName"]
    THEN [status |-> critical, msg |-> m \o <<" (expected '", str(name), "')">>]
    ELSE [status |-> s, msg |-> m]

\* Lines 162-164 read the three flags.
has_flags(p) ==
    has_key(p, "isEnabled") /\ has_key(p, "isAuditEnabled") /\ has_key(p, "isRecursive")

\* An enabled step that sets the severity back to OK when the policy is enabled.
check_enabled_resets(s, m, p) ==
    LET enabled == p.v["isEnabled"]
        m1 == m \o <<", enabled = ", str(enabled)>>
    IN  IF ~truth(enabled)
        THEN [status |-> critical, msg |-> m1 \o <<" (expected True)">>]
        ELSE [status |-> ok, msg |-> m1]

\* Lines 165-168.
check_enabled(s, m, p) ==
    LET enabled == p.v["isEnabled"]
        m1 == m \o <<", enabled = ", str(enabled)>>
    IN  IF ~truth(enabled)
        THEN [status |-> critical, msg |-> m1 \o <<" (expected True)">>]
        ELSE [status |-> s, msg |-> m1]

\* An auditing step that ignores --no-audit.
check_auditing_strict(s, m, p, noaudit) ==
    LET auditing == p.v["isAuditEnabled"]
        m1 == m \o <<", auditing = ", str(auditing)>>
    IN  IF ~truth(auditing)
        THEN [status |-> critical, msg |-> m1 \o <<" (expected True)">>]
        ELSE [status |-> s, msg |-> m1]

\* Lines 169-172.
check_auditing(s, m, p, noaudit) ==
    LET auditing == p.v["isAuditEnabled"]
        m1 == m \o <<", auditing = ", str(auditing)>>
    IN  IF ~truth(auditing) /\ ~noaudit
        THEN [status |-> critical, msg |-> m1 \o <<" (expected True)">>]
        ELSE [status |-> s, msg |-> m1]

\* A recursive step that reports the flag only when --recursive is given.
check_recursive_optional(s, m, p, want) ==
    LET rec == p.v["isRecursive"]
        m1 == m \o <<", recursive = ", str(rec)>>
    IN  IF want /\ ~truth(rec)
        THEN [status |-> critical, msg |-> m1 \o <<" (expected True)">>]
        ELSE [status |-> s, msg |-> IF want THEN m1 ELSE m]

\* Lines 173-176.
check_recursive(s, m, p, want) ==
    LET rec == p.v["isRecursive"]
        m1 == m \o <<", recursive = ", str(rec)>>
    IN  IF want /\ ~truth(rec)
        THEN [status |-> critical, msg |-> m1 \o <<" (expected True)">>]
        ELSE [status |-> s, msg |-> m1]

-----------------------------------------------------------------------------
\* The run

base_path == <<"/service/public/api/policy">>
default_msg == <<"Ranger Message Not Defined">>

Init ==
    /\ policy_name = None /\ policy_id = None
    /\ no_audit = FALSE /\ recursive = FALSE /\ list_policies = FALSE
    /\ path = base_path
    /\ json_data = None /\ policy = None
    /\ status = ok
    /\ msg = default_msg
    /\ exc = "" /\ exc_msg = <<>>
    /\ stdout = <<>>
    /\ pc = "process_options"

\* process_options: read the command line; usage() unless a name, an id or
\* --list-policies is given; the targeted query's path.
ProcessOptions ==
    /\ pc = "process_options"
    /\ \E name \in NameOptions, id \in IdOptions, a \in BOOLEAN, r \in BOOLEAN,
          l \in BOOLEAN :
        /\ policy_name' = name /\ policy_id' = id
        /\ no_audit' = a /\ recursive' = r /\ list_policies' = l
        /\ IF ~l /\ ~truth(name) /\ ~truth(id)
           THEN /\ exc' = "usage"
                /\ exc_msg' = <<"--policy name / --policy-id is not defined">>
                /\ pc' = "exit"
                /\ path' = path
           ELSE /\ pc' = "parse_json"
                /\ path' = IF truth(id) /\ ~l THEN path \o <<"/", str(id)>> ELSE path
                /\ UNCHANGED <<exc, exc_msg>>
    /\ UNCHANGED <<json_data, policy, status, msg, stdout>>

raise(e, m) ==
    /\ exc' = e /\ exc_msg' = m /\ pc' = "exit"

\* parse_json up to its call of check_policy, on the answer the query got.
ParseJson ==
    /\ pc = "parse_json"
    /\ \E data \in Payloads :
        LET x == extract(data, policy_id, list_policies)
            found == resolve(x.policy, x.policy_list, policy_name)
            printed == print_policies(x.policy_list)
        IN  /\ json_data' = data
            /\ IF x.exc # ""
               THEN raise(x.exc, <<>>) /\ policy' = x.policy /\ stdout' = stdout
               ELSE IF no_policies(x.policy_list)
               THEN /\ raise("CriticalError", <<"no Ranger policies found!">>)
                    /\ policy' = x.policy /\ stdout' = stdout
               ELSE IF ~isList(x.policy_list)
               THEN /\ raise("UnknownError",
                             <<"non-list returned for json_data[vXPolicies] by Ranger",
                               host_info>>)
                    /\ policy' = x.policy /\ stdout' = stdout
               ELSE IF list_policies
               THEN /\ stdout' = stdout \o printed.lines
                    /\ IF printed.exc # "" THEN raise(printed.exc, <<>>)
                       ELSE raise("SystemExit", <<"UNKNOWN">>)
                    /\ policy' = x.policy
               ELSE IF found.exc # ""
               THEN raise(found.exc, <<>>) /\ policy' = x.policy /\ stdout' = stdout
               ELSE IF ~truth(found.policy)
               THEN /\ raise("CriticalError", not_found_msg(policy_name))
                    /\ policy' = found.policy /\ stdout' = stdout
               ELSE /\ policy' = found.policy
                    /\ pc' = "check_header"
                    /\ UNCHANGED <<exc, exc_msg, stdout>>
    /\ UNCHANGED <<options, path, status, msg>>

CheckHeader ==
    /\ pc = "check_header"
    /\ LET r == check_header(policy, policy_id)
       IN  IF r.exc # ""
           THEN raise(r.exc, <<>>) /\ msg' = msg
           ELSE msg' = r.msg /\ pc' = "check_name" /\ UNCHANGED <<exc, exc_msg>>
    /\ UNCHANGED <<options, path, json_data, policy, status, stdout>>

CheckName ==
    /\ pc = "check_name"
    /\ LET r == check_name(status, msg, policy, policy_name)
       IN  status' = r.status /\ msg' = r.msg
    /\ pc' = "check_enabled"
    /\ UNCHANGED <<options, path, json_data, policy, exc, exc_msg, stdout>>

CheckEnabled ==
    /\ pc = "check_enabled"
    /\ IF ~has_flags(policy)
       THEN raise(subscript_error(policy), <<>>) /\ UNCHANGED <<status, msg>>
       ELSE LET r == check_enabled(status, msg, policy)
            IN  /\ status' = r.status /\ msg' = r.msg
                /\ pc' = "check_auditing"
                /\ UNCHANGED <<exc, exc_msg>>
    /\ UNCHANGED <<options, path, json_data, policy, stdout>>

CheckAuditing ==
    /\ pc = "check_auditing"
    /\ LET r == check_auditing(status, msg, policy, no_audit)
       IN  status' = r.status /\ msg' = r.msg
    /\ pc' = "check_recursive"
    /\ UNCHANGED <<options, path, json_data, policy, exc, exc_msg, stdout>>

\* The last statement of check_policy; parse_json then returns.
CheckRecursive ==
    /\ pc = "check_recursive"
    /\ LET r == check_recursive(status, msg, policy, recursive)
       IN  status' = r.status /\ msg' = r.msg
    /\ pc' = "exit"
    /\ UNCHANGED <<options, path, json_data, policy, exc, exc_msg, stdout>>

Next ==
    \/ ProcessOptions
    \/ ParseJson
    \/ CheckHeader
    \/ CheckName
    \/ CheckEnabled
    \/ CheckAuditing
    \/ CheckRecursive

Spec == Init /\ [][Next]_vars

-----------------------------------------------------------------------------
\* Vocabulary of the properties

Direct == truth(policy_id) /\ ~list_policies
ContainerMode == ~truth(policy_id) \/ list_policies
ByList == ~truth(policy_id) /\ truth(policy_name) /\ ~list_policies

Parsed == pc \notin {"process_options", "parse_json"} /\ json_data # None
Returned == pc = "exit" /\ exc = ""
InValidator ==
    pc \in {"check_name", "check_enabled", "check_auditing", "check_recursive"}
    \/ Returned

\* A policy with every field the plugin reads / with every listed column.
WellFormed(p) == has_key(p, "id") /\ has_key(p, "policyName") /\ has_flags(p)
Listable(p) == \A col \in DOMAIN cols : has_key(p, cols[col])

HasCollection == has_key(json_data, "vXPolicies")
Collection == json_data.v["vXPolicies"]
ListedPolicies == HasCollection /\ isList(Collection) /\ Len(Collection.v) > 0

\* The conditions a policy is validated against.
NameOk(p) == policy_name = None \/ policy_name = p.v["policyName"]
EnabledOk(p) == p.v["isEnabled"] = PyBool(TRUE)
AuditOk(p) == p.v["isAuditEnabled"] = PyBool(TRUE) \/ no_audit
RecursiveOk(p) == p.v["isRecursive"] = PyBool(TRUE) \/ ~recursive
Compliant(p) == NameOk(p) /\ EnabledOk(p) /\ AuditOk(p) /\ RecursiveOk(p)
Violations(p) ==
    Cardinality({c \in {"name", "enabled", "auditing", "recursive"} :
        \/ c = "name" /\ ~NameOk(p)
        \/ c = "enabled" /\ ~EnabledOk(p)
        \/ c = "auditing" /\ ~AuditOk(p)
        \/ c = "recursive" /\ ~RecursiveOk(p)})

IdMatches(p) == ~truth(policy_id) \/ str(p.v["id"]) = str(policy_id)

\* Where a piece occurs in the message.
At(piece) == {i \in 1..Len(msg) : msg[i] = piece}
Follows(i, piece) == i + 2 <= Len(msg) /\ msg[i + 2] = piece

-----------------------------------------------------------------------------
\* C1, as stated: for every resolved policy and every combination of criteria and
\* config, check_policy yields severity OK exactly when the policy is enabled,
\* audited (or --no-audit), recursive (or --recursive not asked) and named as
\* expected (or no name given); in every other case the severity is CRITICAL.
C1_SeverityEveryCriteria ==
    (pc = "exit" /\ exc \in {"", "AssertionError"} /\ WellFormed(policy)) =>
        surfaced(exc, status) = IF Compliant(policy) THEN "OK" ELSE "CRITICAL"

\* C1, amended: the same, for every combination of criteria on which check_policy's
\* id assertion passes (no id given, or str(id) of the policy equals it); the
\* validator then returns, with severity OK exactly when the four conditions
\* hold and CRITICAL otherwise.  When the assertion fails no severity is yielded.
C1_SeverityIffCompliant ==
    /\ Returned => /\ IdMatches(policy)
                   /\ status = IF Compliant(policy) THEN "OK" ELSE "CRITICAL"
    /\ (pc = "exit" /\ exc = "AssertionError") => ~IdMatches(policy)

\* A policy without auditing passes under --no-audit with the expected name given.
C1_Witness ==
    /\ Returned /\ status = "OK"
    /\ no_audit /\ policy.v["isAuditEnabled"] = PyBool(FALSE)
    /\ recursive /\ policy_name # None

\* C2, as stated: an empty policy collection always ends in the CRITICAL
\* 'no policies found' error, whatever the criteria (id, name, both, listing).
C2_EmptyAlwaysCritical ==
    (pc = "exit" /\ json_data = PyDict([vXPolicies |-> PyList(<<>>)])) =>
        exc = "CriticalError" /\ exc_msg = <<"no Ranger policies found!">>

\* C2, amended: whenever the answer is read as a container (no id given, or
\* listing), an empty collection ends in the CRITICAL 'no Ranger policies found!'
\* error, whatever the name and the listing flag; in direct lookup (id given, not
\* listing) the answer is taken as the policy itself and the run ends with the
\* KeyError of its missing policyName.
C2_EmptyContainerCritical ==
    (Parsed /\ json_data = PyDict([vXPolicies |-> PyList(<<>>)])) =>
        IF ContainerMode
        THEN /\ pc = "exit" /\ exc = "CriticalError"
             /\ exc_msg = <<"no Ranger policies found!">>
             /\ stdout = <<>>
        ELSE pc = "exit" => exc = "KeyError"

\* An empty collection met in listing mode with an id and a name given.
C2_Witness ==
    /\ pc = "exit" /\ json_data = PyDict([vXPolicies |-> PyList(<<>>)])
    /\ list_policies /\ truth(policy_id) /\ truth(policy_name)
    /\ exc = "CriticalError"

Rows == SelectSeq(stdout, LAMBDA line : line.kind = "row")

\* C3, as stated: in listing mode, for every answer holding a collection, one
\* table row is written per policy of the collection and the run ends UNKNOWN,
\* never OK or CRITICAL.
C3_ListingNeverJudges ==
    (pc = "exit" /\ list_policies /\ HasCollection /\ isList(Collection)
     /\ \A i \in 1..Len(Collection.v) : Listable(Collection.v[i])) =>
        /\ surfaced(exc, status) = "UNKNOWN"
        /\ Len(Rows) = Len(Collection.v)

\* C3, amended: in listing mode, for every answer whose vXPolicies is a non-empty
\* list of policies carrying all eight listed fields, one table row is written
\* per policy, in list order, and the run exits UNKNOWN; an empty list ends
\* CRITICAL ('no Ranger policies found!') with nothing written; no listing run
\* ends OK.
C3_ListingRows ==
    (pc = "exit" /\ list_policies /\ json_data # None) =>
        /\ surfaced(exc, status) # "OK"
        /\ (HasCollection /\ isList(Collection) /\ Len(Collection.v) = 0)
           => exc = "CriticalError" /\ stdout = <<>>
        /\ (ListedPolicies /\ \A i \in 1..Len(Collection.v) : Listable(Collection.v[i]))
           => /\ exc = "SystemExit" /\ exc_msg = <<"UNKNOWN">>
              /\ Len(Rows) = Len(Collection.v)
              /\ \A i \in 1..Len(Rows) :
                    /\ Len(Rows[i].cells) = Len(columns)
                    /\ Rows[i].cells[1].val = Collection.v[i].v["id"]
                    /\ Rows[i].cells[2].val = Collection.v[i].v["policyName"]

\* Two policies listed, two rows written.
C3_Witness ==
    /\ pc = "exit" /\ list_policies /\ ListedPolicies
    /\ Len(Collection.v) = 2 /\ Len(Rows) = 2 /\ exc = "SystemExit"

\* C4: when the answer is read as a container and vXPolicies is absent or is
\* not a list (null, {}, "", 0 included), the run fails with the malformed-shape
\* error surfaced as UNKNOWN, never as CRITICAL or OK.
C4_MalformedIsUnknown ==
    (Parsed /\ ContainerMode /\ ~(HasCollection /\ isList(Collection))) =>
        pc = "exit" /\ surfaced(exc, status) = "UNKNOWN"


\* Where byName occurs in the listed collection.
Matches == {i \in 1..Len(Collection.v) : Collection.v[i].v["policyName"] = policy_name}
FirstMatch == CHOOSE i \in Matches : \A j \in Matches : i <= j

\* C5: in by-list check mode (no id, a name, not listing), when no policy of the
\* non-empty collection is named byName, the run fails with the CRITICAL
\* not-found error whose message carries byName; the validator runs on no
\* policy and no other policy is returned in its place.
C5_AbsentNameNotFound ==
    (Parsed /\ ByList /\ ListedPolicies /\ Matches = {}) =>
        /\ pc = "exit" /\ exc = "CriticalError"
        /\ Len(exc_msg) = 5
        /\ exc_msg[1] = "no matching policy found with name '"
        /\ exc_msg[2] = policy_name.v
        /\ policy = None
        /\ msg = default_msg /\ status = "OK"

\* Two policies listed, neither named byName (one differs by case only).
C5_Witness ==
    /\ pc = "exit" /\ ByList /\ ListedPolicies /\ Matches = {}
    /\ Len(Collection.v) = 2 /\ policy_name = PyStr("p1")
    /\ Collection.v[2].v["policyName"] = PyStr("P1")
    /\ Collection.v[2].v["isEnabled"] = PyBool(TRUE)
    /\ exc = "CriticalError"

\* C6: in by-list check mode the policy handed to the validator is the first
\* one, in list order, whose name equals byName exactly (case-sensitive); later
\* policies of that name influence neither the verdict nor the message.
C6_FirstMatchValidated ==
    (Parsed /\ ByList /\ ListedPolicies /\ Matches # {}) =>
        /\ policy = Collection.v[FirstMatch]
        /\ pc # "exit" \/ exc = ""
        /\ InValidator => /\ msg[2] = ToString(FirstMatch)
                          /\ msg[4] = policy_name.v
        /\ Returned =>
              (status = "OK" <=> Compliant(Collection.v[FirstMatch]))

\* Two policies share the name; the first is disabled, the second is not, and
\* the verdict is the first one's.
C6_Witness ==
    /\ Returned /\ ByList /\ ListedPolicies /\ Matches = {1, 2}
    /\ Collection.v[1].v["isEnabled"] = PyBool(FALSE)
    /\ Collection.v[2].v["isEnabled"] = PyBool(TRUE)
    /\ no_audit /\ ~recursive
    /\ status = "CRITICAL"

NameClause == <<" (expected '", str(policy_name), "')">>

\* C7, as stated: in direct lookup (id given, not listing) the answer itself is
\* the resolved policy and no name search is made; when a differing byName is
\* given too, resolution succeeds and the mismatch is a validation result:
\* CRITICAL with the clause (expected '<byName>'), next to the clauses of the
\* other violated conditions.
C7_DirectNameMismatch ==
    (Parsed /\ Direct /\ WellFormed(json_data)) =>
        /\ policy = json_data
        /\ (pc = "exit" /\ ~NameOk(json_data)) =>
              /\ exc = "" /\ status = "CRITICAL"
              /\ SubSeq(msg, 6, 8) = NameClause

\* C7, amended: the same, when the policy's id equals byId as strings (else the
\* id assertion ends the run before any clause is written): the verdict is
\* CRITICAL, the clause (expected '<byName>') follows the header, and the clause
\* of every other violated condition is in the same message.
C7_DirectNameMismatchIdOk ==
    (Parsed /\ Direct /\ WellFormed(json_data)) =>
        /\ policy = json_data
        /\ (pc = "exit" /\ ~NameOk(json_data) /\ IdMatches(json_data)) =>
              /\ exc = "" /\ status = "CRITICAL"
              /\ SubSeq(msg, 6, 8) = NameClause
              /\ ~EnabledOk(json_data) =>
                    SubSeq(msg, 9, 11) = <<", enabled = ", "False", " (expected True)">>
              /\ Cardinality(At(" (expected True)")) = Violations(json_data) - 1

\* The scenario of the specification: id 2, named P1, disabled, asked as p1.
C7_Witness ==
    /\ Returned /\ Direct /\ policy_id = PyStr("2") /\ policy_name = PyStr("p1")
    /\ json_data = PolicyRecord(PyInt(2), "P1", FALSE, TRUE, TRUE)
    /\ status = "CRITICAL"

\* C8: when an id is given and the resolved policy's id differs from it as
\* strings, validation ends in the internal failure (the assertion), which is
\* not the CRITICAL path: severity is never raised and no message is built.
C8_IdMismatchAsserts ==
    (Parsed /\ Direct /\ has_key(policy, "id") /\ has_key(policy, "policyName")) =>
        IF str(policy.v["id"]) # str(policy_id)
        THEN /\ pc \in {"check_header", "exit"}
             /\ pc = "exit" => exc = "AssertionError"
             /\ status = "OK" /\ msg = default_msg
             /\ surfaced(exc, status) # "CRITICAL"
        ELSE exc # "AssertionError"

\* A disabled policy with id 1 answered to the query for id 2.
C8_Witness ==
    /\ pc = "exit" /\ exc = "AssertionError" /\ policy_id = PyStr("2")
    /\ WellFormed(policy) /\ policy.v["id"] = PyInt(1)
    /\ policy.v["isEnabled"] = PyBool(FALSE)

\* C9: every message check_policy builds holds, after the header
\* policy id '<id>' name '<name>', the clauses enabled = <bool>,
\* auditing = <bool>, recursive = <bool>, once each and in that order, whatever
\* failed before; a clause is followed by (expected True) exactly when its
\* condition raised the severity, so the (expected ...) markers are as many as
\* the violated conditions.
C9_MessageClauses ==
    Returned =>
        /\ SubSeq(msg, 1, 5) = <<"Ranger policy id '", str(policy.v["id"]), "' name '",
                                 policy.v["policyName"].v, "'">>
        /\ \E e, a, r \in 6..Len(msg) :
            /\ At(", enabled = ") = {e}
            /\ At(", auditing = ") = {a}
            /\ At(", recursive = ") = {r}
            /\ e < a /\ a < r
            /\ msg[e + 1] = str(policy.v["isEnabled"])
            /\ msg[a + 1] = str(policy.v["isAuditEnabled"])
            /\ msg[r + 1] = str(policy.v["isRecursive"])
            /\ Follows(e, " (expected True)") <=> ~EnabledOk(policy)
            /\ Follows(a, " (expected True)") <=> ~AuditOk(policy)
            /\ Follows(r, " (expected True)") <=> ~RecursiveOk(policy)
        /\ Cardinality(At(" (expected True)")) + Cardinality(At(" (expected '"))
              = Violations(policy)

\* Every condition is violated at once: four markers in one message.
C9_Witness ==
    /\ Returned /\ Violations(policy) = 4
    /\ Cardinality(At(" (expected True)")) = 3

\* C10: within one invocation of the validator severity only escalates: once a
\* step has raised it to CRITICAL no later step sets it back, so the final
\* severity is CRITICAL whenever any step raised it.
C10_SeverityOnlyEscalates ==
    [][status = "CRITICAL" => status' = "CRITICAL"]_vars

\* The name check raised the severity and every later check passed.
C10_Witness ==
    /\ Returned /\ status = "CRITICAL"
    /\ ~NameOk(policy) /\ EnabledOk(policy)
    /\ policy.v["isAuditEnabled"] = PyBool(TRUE)
    /\ policy.v["isRecursive"] = PyBool(TRUE)

====
